---- MODULE Spec2Model ----
(***************************************************************************)
(* State-machine model of the MongoDB persistence layer of the bot         *)
(* (src/src/data/database.py): users and premium entitlement, per-day scan *)
(* counters, cached token / wallet / KOL profiles, tracking subscriptions, *)
(* referrals and payment transactions.                                     *)
(*                                                                         *)
(* A collection is a set of documents (records).  Nothing in the           *)
(* representation forces one document per key: uniqueness has to follow    *)
(* from the way the handlers write.  Every handler is one action; each     *)
(* pymongo call it makes is one atomic single-collection operation.        *)
(*                                                                         *)
(* Time is counted in ticks, TicksPerDay ticks to the day.  A nullable     *)
(* field holds Null (the empty tuple) or Some(v) (a one-element tuple).    *)
(* Strings that get case-folded are sequences of character codes.          *)
(***************************************************************************)
EXTENDS Integers, Sequences, FiniteSets, TLC

VARIABLES
    users,                    \* db.users
    user_scans,               \* db.user_scans
    token_data,               \* db.token_data
    wallet_data,              \* db.wallet_data
    kol_wallets,              \* db.kol_wallets
    tracking_subscriptions,   \* db.tracking_subscriptions
    referrals,                \* db.referrals
    transactions,             \* db.transactions
    now,                      \* the clock read by datetime.now(), in ticks
    db,                       \* _db, the process-wide handle
    sweep,                    \* a cleanup_expired_premium under way
    last                      \* the last call: its name, arguments and result

vars == <<users, user_scans, token_data, wallet_data, kol_wallets,
          tracking_subscriptions, referrals, transactions, now, db, sweep,
          last>>

----------------------------------------------------------------------------
(* Bounds *)

MaxUser == 2
TicksPerDay == 2
MaxTime == 2
MaxScans == 3
MaxRows == 2
MaxReferrals == 2

UserIds == 1..MaxUser
\* the dates callers pass: the days the clock goes through
Dates == 0..(MaxTime \div TicksPerDay)
ScanTypes == {"token_scan", "wallet_scan"}
TrackingTypes == {"wallet", "token"}

\* Addresses as callers write them: strings of character codes, in upper,
\* lower and mixed case: "AB", "ab", "Ab" and "AC"
Addresses == {<<65, 66>>, <<97, 98>>, <<65, 98>>, <<65, 67>>}

----------------------------------------------------------------------------
(* Values *)

Null == << >>
Some(v) == <<v>>

\* timedelta(days=d), in ticks
Days(d) == d * TicksPerDay

\* datetime.now().date().isoformat(): the day the clock is in
Today == now \div TicksPerDay

Call(op, args, ret) == [op |-> op, args |-> args, ret |-> ret]

\* str.lower() on one character and on a string
LowerChar(c) == IF c \in 65..90 THEN c + 32 ELSE c
Lower(s) == [i \in DOMAIN s |-> LowerChar(s[i])]

----------------------------------------------------------------------------
(* pymongo's single-collection operations.  match is the set of documents   *)
(* of the collection the filter selects and upd the update, as a function   *)
(* of the document it is applied to.  Each operation yields the set of      *)
(* collections the call may leave: update_one, delete_one and find_one act  *)
(* on one matching document, whichever the server meets first.              *)

\* {"$set": fields} applied to document d: the fields named are written,
\* the others (and _id) are kept
SetDoc(d, fields) ==
    [k \in DOMAIN d \cup DOMAIN fields |->
        IF k \in DOMAIN fields THEN fields[k] ELSE d[k]]

\* The _id an insert gives a document: one that makes it a document of its
\* own, distinct from every stored one, whatever it holds
NewId(coll, doc) ==
    CHOOSE n \in 0..Cardinality(coll) :
        /\ SetDoc(doc, [_id |-> n]) \notin coll
        /\ \A m \in 0..(n - 1) : SetDoc(doc, [_id |-> m]) \in coll

\* collection.insert_one(doc), and the insert of an upsert
Insert(coll, doc) == coll \cup {SetDoc(doc, [_id |-> NewId(coll, doc)])}

\* collection.update_one(filter, update)
UpdateOne(coll, match, upd) ==
    IF match = {}
    THEN {coll}
    ELSE {(coll \ {d}) \cup {upd[d]} : d \in match}

\* (an insert where an upsert is meant)
UpsertAlwaysInsert(coll, match, upd, ins) == {Insert(coll, ins)}

\* collection.update_one(filter, update, upsert=True); ins is the document
\* an insert builds from the filter's equalities and the update
Upsert(coll, match, upd, ins) ==
    IF match = {}
    THEN {Insert(coll, ins)}
    ELSE UpdateOne(coll, match, upd)

\* collection.update_many(filter, update)
UpdateManyDropping(coll, match, upd) == coll \ match
UpdateMany(coll, match, upd) ==
    {IF d \in match THEN upd[d] ELSE d : d \in coll}

\* collection.delete_many(filter)
DeleteMany(coll, match) == coll \ match

\* collection.delete_one(filter)
DeleteOne(coll, match) ==
    IF match = {}
    THEN {coll}
    ELSE {coll \ {d} : d \in match}

\* collection.find_one(filter): None, or one matching document
FindOne(match) ==
    IF match = {}
    THEN {Null}
    ELSE {Some(d) : d \in match}

----------------------------------------------------------------------------
(* The documents stored, the scan counters aside *)

NumDocs ==
    Cardinality(users) + Cardinality(token_data) + Cardinality(wallet_data)
    + Cardinality(kol_wallets) + Cardinality(tracking_subscriptions)
    + Cardinality(referrals) + Cardinality(transactions)

----------------------------------------------------------------------------
(* The handle: _db, init_database, get_database *)

\* client[DB_NAME]: a handle, with whether the init_database that made it
\* got through the indexes and server_info()
Handle(initialized) == Some([initialized |-> initialized])

\* what the environment lets an init_database do: everything, the client
\* but not the indexes, or not even the client
InitOutcomes == {"ok", "index_fails", "client_fails"}

\* _db after init_database under an outcome: it is assigned as soon as the
\* client is built, before the first create_index
HandleAfterInit(handle, outcome) ==
    CASE outcome = "ok" -> Handle(TRUE)
      [] outcome = "index_fails" -> Handle(FALSE)
      [] outcome = "client_fails" -> handle

\* _db after the get_database() a handler starts with, the store being
\* reachable
Connected(handle) ==
    IF handle = Null THEN HandleAfterInit(handle, "ok") ELSE handle

init_database(outcome) ==
    /\ db' = HandleAfterInit(db, outcome)
    /\ last' = Call("init_database", << >>, outcome = "ok")
    /\ UNCHANGED <<users, user_scans, token_data, wallet_data, kol_wallets,
                   tracking_subscriptions, referrals, transactions, now,
                   sweep>>

\* if _db is None: init_database(); return _db
get_database(outcome) ==
    /\ db' = IF db = Null THEN HandleAfterInit(db, outcome) ELSE db
    /\ last' = Call("get_database", << >>, db')
    /\ UNCHANGED <<users, user_scans, token_data, wallet_data, kol_wallets,
                   tracking_subscriptions, referrals, transactions, now,
                   sweep>>

----------------------------------------------------------------------------
(* The clock *)

Tick ==
    /\ now < MaxTime
    /\ now' = now + 1
    /\ UNCHANGED <<db, sweep, users, user_scans, token_data, wallet_data, kol_wallets,
                   tracking_subscriptions, referrals, transactions, last>>

----------------------------------------------------------------------------
(* Quota ledger: db.user_scans *)

\* the rows the filter {user_id, scan_type, date} selects
ScanRows(user_id, scan_type, date) ==
    {d \in user_scans :
        d.user_id = user_id /\ d.scan_type = scan_type /\ d.date = date}

\* {"$inc": {"count": n}} on a stored document
IncCountLost(d, n) == d
IncCount(d, n) == [d EXCEPT !.count = @ + n]

\* what find_one's result gives get_user_scan_count to return
ScanCountOf(scan_data) ==
    IF scan_data = Null THEN 0 ELSE scan_data[1].count

ScanCountResults(user_id, scan_type, date) ==
    {ScanCountOf(r) :
        r \in FindOne(ScanRows(user_id, scan_type, date))}

get_user_scan_count(user_id, scan_type, date) ==
    /\ \E r \in ScanCountResults(user_id, scan_type, date) :
          last' = Call("get_user_scan_count", <<user_id, scan_type, date>>, r)
    /\ db' = Connected(db)
    /\ UNCHANGED <<sweep, users, user_scans, token_data, wallet_data, kol_wallets,
                   tracking_subscriptions, referrals, transactions, now>>

\* the scans counted in the whole collection
RECURSIVE TotalScans(_)
TotalScans(coll) ==
    IF coll = {} THEN 0
    ELSE LET d == CHOOSE x \in coll : TRUE
         IN  d.count + TotalScans(coll \ {d})

increment_user_scan_count(user_id, scan_type, date) ==
    /\ TotalScans(user_scans) < MaxScans
    /\ user_scans' \in Upsert(user_scans,
            ScanRows(user_id, scan_type, date),
            [d \in user_scans |-> IncCount(d, 1)],
            IncCount([user_id |-> user_id, scan_type |-> scan_type,
                      date |-> date, count |-> 0], 1))
    /\ last' = Call("increment_user_scan_count", <<user_id, scan_type, date>>, Null)
    /\ db' = Connected(db)
    /\ UNCHANGED <<sweep, users, token_data, wallet_data, kol_wallets,
                   tracking_subscriptions, referrals, transactions, now>>

\* the filter {"date": {"$ne": today}}
StaleScanOlder(d, today) == d.date < today
StaleScan(d, today) == d.date # today

reset_user_scan_counts ==
    /\ user_scans' = DeleteMany(user_scans, {d \in user_scans : StaleScan(d, Today)})
    /\ last' = Call("reset_user_scan_counts", <<Today>>, Null)
    /\ db' = Connected(db)
    /\ UNCHANGED <<sweep, users, token_data, wallet_data, kol_wallets,
                   tracking_subscriptions, referrals, transactions, now>>

----------------------------------------------------------------------------
(* Entity store: db.token_data, db.wallet_data, db.kol_wallets *)

\* the deployer addresses and KOL names callers write; the name "ab" is
\* also an address
Deployers == {<<65, 66>>, <<97, 98>>}
Names == {<<75>>, <<97, 98>>}
WinRates == {40, 60}

\* TokenData.to_dict(), WalletData.to_dict(), KOLWallet.to_dict() of the
\* profiles callers save
Tokens ==
    [address : Addresses, deployer : Deployers, last_updated : {Some(0)}]
Wallets ==
    [address : Addresses, win_rate : WinRates, last_updated : {Some(0)}]
KOLWallets ==
    [address : Addresses, name : Names, last_updated : {Null}]

\* the rows the filter {"address": address} selects
TokenRows(address) == {d \in token_data : d.address = address}
WalletRows(address) == {d \in wallet_data : d.address = address}
KolRows(address) == {d \in kol_wallets : d.address = address}

\* dict["address"] = dict["address"].lower()
NormalizedAddressRaw(dict) == dict
NormalizedAddress(dict) == [dict EXCEPT !.address = Lower(@)]

\* dict["last_updated"] = datetime.now()
Stamped(dict, t) == [dict EXCEPT !.last_updated = Some(t)]

\* find_one({"address": address.lower()})
TokenDataResults(address) == FindOne(TokenRows(Lower(address)))

get_token_data(address) ==
    /\ \E r \in TokenDataResults(address) :
          last' = Call("get_token_data", <<address>>, r)
    /\ db' = Connected(db)
    /\ UNCHANGED <<sweep, users, user_scans, token_data, wallet_data, kol_wallets,
                   tracking_subscriptions, referrals, transactions, now>>

save_token_data(token) ==
    LET token_dict == Stamped(NormalizedAddress(token), now)
    IN  /\ token_data' \in Upsert(token_data,
                TokenRows(token_dict.address),
                [d \in token_data |-> SetDoc(d, token_dict)],
                token_dict)
        /\ last' = Call("save_token_data", <<token>>, Null)
        /\ db' = Connected(db)
        /\ UNCHANGED <<sweep, users, user_scans, wallet_data, kol_wallets,
                       tracking_subscriptions, referrals, transactions, now>>
        /\ NumDocs' <= MaxRows

\* find({"deployer": deployer_address.lower()})
TokensByDeployer(deployer_address) ==
    {d \in token_data : d.deployer = Lower(deployer_address)}

get_tokens_by_deployer(deployer_address) ==
    /\ last' = Call("get_tokens_by_deployer", <<deployer_address>>,
                    TokensByDeployer(deployer_address))
    /\ db' = Connected(db)
    /\ UNCHANGED <<sweep, users, user_scans, token_data, wallet_data,
                   kol_wallets, tracking_subscriptions, referrals,
                   transactions, now>>

WalletDataResults(address) == FindOne(WalletRows(Lower(address)))

get_wallet_data(address) ==
    /\ \E r \in WalletDataResults(address) :
          last' = Call("get_wallet_data", <<address>>, r)
    /\ db' = Connected(db)
    /\ UNCHANGED <<sweep, users, user_scans, token_data, wallet_data, kol_wallets,
                   tracking_subscriptions, referrals, transactions, now>>

save_wallet_data(wallet) ==
    LET wallet_dict == Stamped(NormalizedAddress(wallet), now)
    IN  /\ wallet_data' \in Upsert(wallet_data,
                WalletRows(wallet_dict.address),
                [d \in wallet_data |-> SetDoc(d, wallet_dict)],
                wallet_dict)
        /\ last' = Call("save_wallet_data", <<wallet>>, Null)
        /\ db' = Connected(db)
        /\ UNCHANGED <<sweep, users, user_scans, token_data, kol_wallets,
                       tracking_subscriptions, referrals, transactions, now>>
        /\ NumDocs' <= MaxRows

\* {"name": {"$regex": "^x$", "$options": "i"}} on names and arguments made
\* of letters: the name is x, ignoring case
NameMatches(name, x) == Lower(name) = Lower(x)

\* the rows the $or of get_kol_wallet selects
KolMatches(name_or_address) ==
    {d \in kol_wallets :
        \/ NameMatches(d.name, name_or_address)
        \/ d.address = Lower(name_or_address)}

KolWalletResults(name_or_address) == FindOne(KolMatches(name_or_address))

get_kol_wallet(name_or_address) ==
    /\ \E r \in KolWalletResults(name_or_address) :
          last' = Call("get_kol_wallet", <<name_or_address>>, r)
    /\ db' = Connected(db)
    /\ UNCHANGED <<sweep, users, user_scans, token_data, wallet_data, kol_wallets,
                   tracking_subscriptions, referrals, transactions, now>>

save_kol_wallet(kol) ==
    LET kol_dict == NormalizedAddress(kol)
    IN  /\ kol_wallets' \in Upsert(kol_wallets,
                KolRows(kol_dict.address),
                [d \in kol_wallets |-> SetDoc(d, kol_dict)],
                kol_dict)
        /\ last' = Call("save_kol_wallet", <<kol>>, Null)
        /\ db' = Connected(db)
        /\ UNCHANGED <<sweep, users, user_scans, token_data, wallet_data,
                       tracking_subscriptions, referrals, transactions, now>>
        /\ NumDocs' <= MaxRows

----------------------------------------------------------------------------
(* Users: db.users *)

\* User.to_dict() of a user as first seen
NewUser(user_id) ==
    [user_id |-> user_id, is_premium |-> FALSE, premium_until |-> Null,
     is_admin |-> FALSE, referral_code |-> Null, referral_count |-> 0,
     last_active |-> Null]

\* the rows the filter {"user_id": user_id} selects
UserRows(user_id) == {d \in users : d.user_id = user_id}

UserResults(user_id) == FindOne(UserRows(user_id))

get_user(user_id) ==
    /\ \E r \in UserResults(user_id) :
          last' = Call("get_user", <<user_id>>, r)
    /\ db' = Connected(db)
    /\ UNCHANGED <<sweep, users, user_scans, token_data, wallet_data, kol_wallets,
                   tracking_subscriptions, referrals, transactions, now>>

save_user(user) ==
    LET user_dict == user
    IN  /\ users' \in Upsert(users,
                UserRows(user.user_id),
                [d \in users |-> SetDoc(d, user_dict)],
                user_dict)
        /\ last' = Call("save_user", <<user>>, Null)
        /\ db' = Connected(db)
        /\ UNCHANGED <<sweep, user_scans, token_data, wallet_data, kol_wallets,
                       tracking_subscriptions, referrals, transactions, now>>
        /\ NumDocs' <= MaxRows

\* {"last_active": datetime.now()}
ActivityFieldsReset(t) == [last_active |-> Some(t), is_premium |-> FALSE]
ActivityFields(t) == [last_active |-> Some(t)]

update_user_activity(user_id) ==
    /\ users' \in UpdateOne(users, UserRows(user_id),
            [d \in users |-> SetDoc(d, ActivityFields(now))])
    /\ last' = Call("update_user_activity", <<user_id>>, Null)
    /\ db' = Connected(db)
    /\ UNCHANGED <<sweep, user_scans, token_data, wallet_data, kol_wallets,
                   tracking_subscriptions, referrals, transactions, now>>

set_user_admin_status(user_id, is_admin) ==
    /\ users' \in UpdateOne(users, UserRows(user_id),
            [d \in users |-> SetDoc(d, [is_admin |-> is_admin])])
    /\ last' = Call("set_user_admin_status", <<user_id, is_admin>>, Null)
    /\ db' = Connected(db)
    /\ UNCHANGED <<sweep, user_scans, token_data, wallet_data, kol_wallets,
                   tracking_subscriptions, referrals, transactions, now>>

update_user_referral_code(user_id, referral_code) ==
    /\ users' \in UpdateOne(users, UserRows(user_id),
            [d \in users |-> SetDoc(d, [referral_code |-> referral_code])])
    /\ last' = Call("update_user_referral_code", <<user_id, referral_code>>, Null)
    /\ db' = Connected(db)
    /\ UNCHANGED <<sweep, user_scans, token_data, wallet_data, kol_wallets,
                   tracking_subscriptions, referrals, transactions, now>>

----------------------------------------------------------------------------
(* Premium lifecycle *)

\* datetime.now() + timedelta(days=duration_days) if is_premium else None
PremiumUntilKept(is_premium, duration_days, t) ==
    Some(t + Days(duration_days))
PremiumUntil(is_premium, duration_days, t) ==
    IF is_premium THEN Some(t + Days(duration_days)) ELSE Null

\* {"$set": {"is_premium": is_premium, "premium_until": premium_until}} on
\* a stored row d
PremiumFieldsStacked(d, is_premium, premium_until) ==
    SetDoc(d, [is_premium |-> is_premium,
               premium_until |->
                   IF /\ premium_until # Null
                      /\ d.premium_until # Null
                      /\ d.premium_until[1] > now
                   THEN Some(premium_until[1] + (d.premium_until[1] - now))
                   ELSE premium_until])
PremiumFields(d, is_premium, premium_until) ==
    SetDoc(d, [is_premium |-> is_premium, premium_until |-> premium_until])

set_premium_status(user_id, is_premium, duration_days) ==
    LET premium_until == PremiumUntil(is_premium, duration_days, now)
    IN  /\ users' \in UpdateOne(users, UserRows(user_id),
                [d \in users |-> PremiumFields(d, is_premium, premium_until)])
        /\ last' = Call("set_premium_status",
                        <<user_id, is_premium, duration_days>>, Null)
        /\ db' = Connected(db)
        /\ UNCHANGED <<sweep, user_scans, token_data, wallet_data, kol_wallets,
                       tracking_subscriptions, referrals, transactions, now>>

\* the filter {"is_premium": True, "premium_until": {"$lt": now}} on a row
ExpiredOrDue(d, t) ==
    d.is_premium = TRUE /\ d.premium_until # Null /\ d.premium_until[1] <= t
Expired(d, t) ==
    d.is_premium = TRUE /\ d.premium_until # Null /\ d.premium_until[1] < t

cleanup_expired_premium ==
    /\ users' = UpdateMany(users, {d \in users : Expired(d, now)},
            [d \in users |-> SetDoc(d, [is_premium |-> FALSE,
                                        premium_until |-> Null])])
    /\ last' = Call("cleanup_expired_premium", <<>>, Null)
    /\ db' = Connected(db)
    /\ UNCHANGED <<sweep, user_scans, token_data, wallet_data, kol_wallets,
                   tracking_subscriptions, referrals, transactions, now>>

(* cleanup_expired_premium among other writers.  The call reads the clock  *)
(* once and hands the filter to update_many; the server then takes the      *)
(* rows one at a time, testing the filter on the row as it is stored at     *)
(* that moment and writing it in the same atomic step.  Other calls may run *)
(* between two rows.                                                         *)

\* the _id of a stored user: the row's insert tag with its user_id, which no
\* write of the row changes
UserRowId(d) == <<d._id, d.user_id>>

\* whether the server writes row d: the filter holds of d as stored now;
\* candidates are the rows of which it held when the call started
SweepExpiredStale(d, candidates, t) == UserRowId(d) \in candidates
SweepExpired(d, candidates, t) == Expired(d, t)

\* now = datetime.now(), and the update_many is sent
cleanup_begin ==
    /\ sweep.pc = "idle"
    /\ sweep' = [pc |-> "running",
                 now |-> now,
                 candidates |-> {UserRowId(d) : d \in {e \in users : Expired(e, now)}},
                 seen |-> {}]
    /\ db' = Connected(db)
    /\ UNCHANGED <<users, user_scans, token_data, wallet_data, kol_wallets,
                   tracking_subscriptions, referrals, transactions, now, last>>

\* the server takes one more row
cleanup_row ==
    /\ sweep.pc = "running"
    /\ \E d \in users :
          /\ UserRowId(d) \notin sweep.seen
          /\ users' = IF SweepExpired(d, sweep.candidates, sweep.now)
                      THEN (users \ {d}) \cup
                           {SetDoc(d, [is_premium |-> FALSE,
                                       premium_until |-> Null])}
                      ELSE users
          /\ sweep' = [sweep EXCEPT !.seen = @ \cup {UserRowId(d)}]
    /\ UNCHANGED <<user_scans, token_data, wallet_data, kol_wallets,
                   tracking_subscriptions, referrals, transactions, now, db,
                   last>>

\* every row has been taken: update_many returns
cleanup_end ==
    /\ sweep.pc = "running"
    /\ \A d \in users : UserRowId(d) \in sweep.seen
    /\ sweep' = [pc |-> "idle", now |-> 0, candidates |-> {}, seen |-> {}]
    /\ last' = Call("cleanup_expired_premium", <<>>, Null)
    /\ UNCHANGED <<users, user_scans, token_data, wallet_data, kol_wallets,
                   tracking_subscriptions, referrals, transactions, now, db>>

\* {"premium_until": {"$gte": start_date, "$lt": end_date}} on a row
InRangeClosed(d, start_date, end_date) ==
    /\ d.premium_until # Null
    /\ start_date <= d.premium_until[1]
    /\ d.premium_until[1] <= end_date
InRange(d, start_date, end_date) ==
    /\ d.premium_until # Null
    /\ start_date <= d.premium_until[1]
    /\ d.premium_until[1] < end_date

\* the rows find({"is_premium": True, "$or": date_ranges}) returns
ExpiringUsers(days_left, t) ==
    {d \in users :
        /\ d.is_premium = TRUE
        /\ \E days \in days_left :
              LET start_date == t + Days(days)
                  end_date == start_date + Days(1)
              IN  InRange(d, start_date, end_date)}

get_users_with_expiring_premium(days_left) ==
    /\ last' = Call("get_users_with_expiring_premium", <<days_left>>,
                    ExpiringUsers(days_left, now))
    /\ db' = Connected(db)
    /\ UNCHANGED <<sweep, users, user_scans, token_data, wallet_data, kol_wallets,
                   tracking_subscriptions, referrals, transactions, now>>

\* services.payment.get_plan_payment_details(plan, payment_currency): Null
\* when the lookup raises (a plan or a currency the table does not hold)
Plans == {"weekly", "monthly"}
Currencies == {"eth", "bnb"}
PlanPaymentDetails(plan, payment_currency) ==
    IF plan \in Plans /\ payment_currency \in Currencies
    THEN Some([currency |-> payment_currency,
               amount |-> <<"price", plan, payment_currency>>,
               duration_days |-> <<"days", plan>>,
               network |-> <<"network", payment_currency>>])
    ELSE Null

update_user_premium_status(user_id, is_premium, premium_until, plan, payment_currency, transaction_id) ==
    LET payment_details == PlanPaymentDetails(plan, payment_currency)
    IN  /\ users' \in UpdateOne(users, UserRows(user_id),
                [d \in users |-> SetDoc(d,
                    [is_premium |-> is_premium,
                     premium_until |-> premium_until,
                     premium_plan |-> plan,
                     payment_currency |-> payment_currency,
                     last_payment_id |-> transaction_id,
                     updated_at |-> Some(now)])])
        /\ IF payment_details = Null
           THEN /\ transactions' = transactions
                /\ last' = Call("update_user_premium_status",
                        <<user_id, is_premium, premium_until, plan,
                          payment_currency, transaction_id>>, "raised")
           ELSE /\ transactions' = Insert(transactions,
                        [user_id |-> user_id,
                         type |-> "premium_purchase",
                         plan_type |-> plan,
                         currency |-> payment_details[1].currency,
                         amount |-> payment_details[1].amount,
                         duration_days |-> payment_details[1].duration_days,
                         network |-> payment_details[1].network,
                         transaction_id |-> transaction_id,
                         date |-> Some(now)])
                /\ last' = Call("update_user_premium_status",
                        <<user_id, is_premium, premium_until, plan,
                          payment_currency, transaction_id>>, Null)
        /\ db' = Connected(db)
        /\ UNCHANGED <<sweep, user_scans, token_data, wallet_data, kol_wallets,
                       tracking_subscriptions, referrals, now>>
        /\ NumDocs' <= MaxRows

----------------------------------------------------------------------------
(* Referral ledger: db.referrals *)

\* the rows the filter {referrer_id, referred_id} selects
ReferralRows(referrer_id, referred_id) ==
    {d \in referrals :
        d.referrer_id = referrer_id /\ d.referred_id = referred_id}

\* {"$inc": {"referral_count": n}} on a stored user
IncReferralCount(d, n) == [d EXCEPT !.referral_count = @ + n]

record_referral(referrer_id, referred_id) ==
    LET edge == [referrer_id |-> referrer_id, referred_id |-> referred_id,
                 date |-> Some(now)]
    IN  /\ \A d \in UserRows(referrer_id) : d.referral_count < MaxReferrals
        /\ referrals' \in Upsert(referrals,
                ReferralRows(referrer_id, referred_id),
                [d \in referrals |-> SetDoc(d, edge)],
                edge)
        /\ users' \in UpdateOne(users, UserRows(referrer_id),
                [d \in users |-> IncReferralCount(d, 1)])
        /\ last' = Call("record_referral", <<referrer_id, referred_id>>, Null)
        /\ db' = Connected(db)
        /\ UNCHANGED <<sweep, user_scans, token_data, wallet_data, kol_wallets,
                       tracking_subscriptions, transactions, now>>
        /\ NumDocs' <= MaxRows

----------------------------------------------------------------------------
(* Subscription registry: db.tracking_subscriptions *)

\* TrackingSubscription.to_dict() of the subscriptions callers save
Subscriptions ==
    [user_id : UserIds, tracking_type : TrackingTypes,
     target_address : Addresses, is_active : BOOLEAN, last_checked : {Null}]

\* the rows the filter {user_id, tracking_type, target_address} selects
SubRows(user_id, tracking_type, target_address) ==
    {d \in tracking_subscriptions :
        /\ d.user_id = user_id
        /\ d.tracking_type = tracking_type
        /\ d.target_address = target_address}

\* sub_dict["target_address"] = sub_dict["target_address"].lower()
NormalizedSubRaw(sub_dict) == sub_dict
NormalizedSub(sub_dict) == [sub_dict EXCEPT !.target_address = Lower(@)]

save_tracking_subscription(subscription) ==
    LET sub_dict == NormalizedSub(subscription)
    IN  /\ tracking_subscriptions' \in Upsert(tracking_subscriptions,
                SubRows(sub_dict.user_id, sub_dict.tracking_type,
                        sub_dict.target_address),
                [d \in tracking_subscriptions |-> SetDoc(d, sub_dict)],
                sub_dict)
        /\ last' = Call("save_tracking_subscription", <<subscription>>, Null)
        /\ db' = Connected(db)
        /\ UNCHANGED <<sweep, users, user_scans, token_data, wallet_data, kol_wallets,
                       referrals, transactions, now>>
        /\ NumDocs' <= MaxRows

\* the filter of delete_tracking_subscription
DeleteSubRowsRaw(user_id, tracking_type, target_address) ==
    SubRows(user_id, tracking_type, target_address)
DeleteSubRows(user_id, tracking_type, target_address) ==
    SubRows(user_id, tracking_type, Lower(target_address))

delete_tracking_subscription(user_id, tracking_type, target_address) ==
    /\ tracking_subscriptions' \in DeleteOne(tracking_subscriptions,
            DeleteSubRows(user_id, tracking_type, target_address))
    /\ last' = Call("delete_tracking_subscription",
                    <<user_id, tracking_type, target_address>>, Null)
    /\ db' = Connected(db)
    /\ UNCHANGED <<sweep, users, user_scans, token_data, wallet_data, kol_wallets,
                   referrals, transactions, now>>

\* find({"user_id": user_id, "is_active": True}): the documents returned
UserSubscriptions(user_id) ==
    {d \in tracking_subscriptions : d.user_id = user_id /\ d.is_active = TRUE}

get_user_tracking_subscriptions(user_id) ==
    /\ last' = Call("get_user_tracking_subscriptions", <<user_id>>,
                    UserSubscriptions(user_id))
    /\ db' = Connected(db)
    /\ UNCHANGED <<sweep, users, user_scans, token_data, wallet_data, kol_wallets,
                   tracking_subscriptions, referrals, transactions, now>>

\* find_one({user_id, tracking_type, target_address.lower()})
TrackingSubscriptionResults(user_id, tracking_type, target_address) ==
    FindOne(SubRows(user_id, tracking_type, Lower(target_address)))

get_tracking_subscription(user_id, tracking_type, target_address) ==
    /\ \E r \in TrackingSubscriptionResults(user_id, tracking_type, target_address) :
          last' = Call("get_tracking_subscription",
                       <<user_id, tracking_type, target_address>>, r)
    /\ db' = Connected(db)
    /\ UNCHANGED <<sweep, users, user_scans, token_data, wallet_data, kol_wallets,
                   tracking_subscriptions, referrals, transactions, now>>

\* the _id of a stored subscription: the server gives every row an _id no
\* other row has and no update changes; here it is the row's insert tag with
\* its key fields, which every write of the row leaves as they are
SubscriptionId(d) ==
    <<d._id, d.user_id, d.tracking_type, d.target_address>>

\* the rows the filter {"_id": subscription_id} selects
SubRowsById(subscription_id) ==
    {d \in tracking_subscriptions : SubscriptionId(d) = subscription_id}

\* {"last_checked": datetime.now()}
CheckFieldsDeactivating(t) == [last_checked |-> Some(t), is_active |-> FALSE]
CheckFields(t) == [last_checked |-> Some(t)]

update_subscription_check_time(subscription_id) ==
    /\ tracking_subscriptions' \in
          UpdateOne(tracking_subscriptions, SubRowsById(subscription_id),
              [d \in tracking_subscriptions |-> SetDoc(d, CheckFields(now))])
    /\ last' = Call("update_subscription_check_time", <<subscription_id>>, Null)
    /\ db' = Connected(db)
    /\ UNCHANGED <<sweep, users, user_scans, token_data, wallet_data, kol_wallets,
                   referrals, transactions, now>>

----------------------------------------------------------------------------
(* Specifications *)

Init ==
    /\ users = {}
    /\ user_scans = {}
    /\ token_data = {}
    /\ wallet_data = {}
    /\ kol_wallets = {}
    /\ tracking_subscriptions = {}
    /\ referrals = {}
    /\ transactions = {}
    /\ now = 0
    /\ db = Null
    /\ sweep = [pc |-> "idle", now |-> 0, candidates |-> {}, seen |-> {}]
    /\ last = Call("init", << >>, Null)

NextQuota ==
    \/ Tick
    \/ \E u \in UserIds, t \in ScanTypes, d \in Dates :
          increment_user_scan_count(u, t, d)
    \/ \E u \in UserIds, t \in ScanTypes, d \in Dates :
          get_user_scan_count(u, t, d)
    \/ reset_user_scan_counts

SpecQuota == Init /\ [][NextQuota]_vars

NextSubs ==
    \/ \E sub \in Subscriptions : save_tracking_subscription(sub)
    \/ \E u \in UserIds, t \in TrackingTypes, a \in Addresses :
          delete_tracking_subscription(u, t, a)
    \/ \E u \in UserIds : get_user_tracking_subscriptions(u)

SpecSubs == Init /\ [][NextSubs]_vars

\* the users saved under SpecEntity: new users, admins or not
EntityUsers ==
    {[NewUser(u) EXCEPT !.is_admin = a] : u \in UserIds, a \in BOOLEAN}

\* the subscriptions saved under SpecEntity: those of the first user
EntitySubscriptions ==
    {sub \in Subscriptions : sub.user_id = 1 /\ sub.tracking_type = "wallet"}

NextEntity ==
    \/ \E user \in EntityUsers : save_user(user)
    \/ \E token \in Tokens : save_token_data(token)
    \/ \E wallet \in Wallets : save_wallet_data(wallet)
    \/ \E kol \in KOLWallets : save_kol_wallet(kol)
    \/ \E sub \in EntitySubscriptions : save_tracking_subscription(sub)
    \/ \E u \in UserIds : get_user(u)
    \/ \E a \in Addresses : get_token_data(a)
    \/ \E a \in Addresses : get_wallet_data(a)
    \/ \E x \in Addresses \cup Names : get_kol_wallet(x)
    \/ \E a \in Addresses : get_tracking_subscription(1, "wallet", a)

SpecEntity == Init /\ [][NextEntity]_vars

NextReferral ==
    \/ Tick
    \/ \E u \in UserIds : save_user(NewUser(u))
    \/ \E a \in UserIds, b \in UserIds : record_referral(a, b)
    \/ \E u \in UserIds : get_user(u)

SpecReferral == Init /\ [][NextReferral]_vars

\* the premium_until, plans and payment ids callers pass
PaidUntil == {Some(0), Some(Days(2))}
PaidPlans == {"monthly", "lifetime"}

NextPayment ==
    \/ Tick
    \/ \E u \in UserIds : save_user(NewUser(u))
    \/ \E u \in UserIds, until \in PaidUntil, plan \in PaidPlans :
          update_user_premium_status(u, TRUE, until, plan, "eth", "tx1")

SpecPayment == Init /\ [][NextPayment]_vars

\* the durations and the sets of day offsets callers pass
Durations == {0, 1, 2, 4}
DaySets == {{1}, {3}, {1, 3}}

\* the users saved under SpecPremium: new users, and users written back
\* with a premium_until left over from a lapsed subscription
PremiumUsers ==
    {[NewUser(u) EXCEPT !.premium_until = until] :
        u \in UserIds, until \in {Null, Some(Days(1))}}

NextPremium ==
    \/ Tick
    \/ \E user \in PremiumUsers : save_user(user)
    \/ \E u \in UserIds, p \in BOOLEAN, d \in Durations :
          set_premium_status(u, p, d)
    \/ cleanup_expired_premium
    \/ \E days_left \in DaySets : get_users_with_expiring_premium(days_left)

SpecPremium == Init /\ [][NextPremium]_vars

\* every operation on db.users, for one user
\* users saved as already premium, with a premium_until that passes during
\* the run or one that does not
RegrantUsers ==
    {[NewUser(u) EXCEPT !.is_premium = TRUE, !.premium_until = until] :
        u \in UserIds, until \in {Some(1), Some(Days(3))}}

NextRegrant ==
    \/ Tick
    \/ \E user \in RegrantUsers : save_user(user)
    \/ \E u \in UserIds, d \in Durations : set_premium_status(u, TRUE, d)
    \/ \E u \in UserIds : get_user(u)

SpecRegrant == Init /\ [][NextRegrant]_vars

\* the profiles saved under SpecStamp: the caller leaves last_updated unset
\* or sets it to the time the profile was built
StampTokens ==
    [address : {<<65, 66>>, <<97, 98>>}, deployer : {<<65, 66>>},
     last_updated : {Null, Some(0)}]
StampWallets ==
    [address : {<<65, 66>>, <<97, 98>>}, win_rate : {40},
     last_updated : {Null, Some(0)}]
StampKols ==
    [address : {<<65, 66>>, <<97, 98>>}, name : {<<75>>},
     last_updated : {Null, Some(0)}]

NextStamp ==
    \/ Tick
    \/ \E token \in StampTokens : save_token_data(token)
    \/ \E wallet \in StampWallets : save_wallet_data(wallet)
    \/ \E kol \in StampKols : save_kol_wallet(kol)
    \/ \E a \in {<<65, 66>>} : get_token_data(a)
    \/ \E a \in {<<65, 66>>} : get_wallet_data(a)
    \/ \E a \in {<<65, 66>>} : get_kol_wallet(a)

SpecStamp == Init /\ [][NextStamp]_vars

\* the subscriptions saved under SpecTouch, and the ids passed to
\* update_subscription_check_time: the id of a stored row or an id no row
\* has
TouchSubscriptions ==
    [user_id : {1}, tracking_type : {"wallet"},
     target_address : {<<65, 66>>, <<65, 67>>}, is_active : BOOLEAN,
     last_checked : {Null}]
AbsentId == <<0, 0, "wallet", <<97, 98>>>>
TouchIds == {SubscriptionId(d) : d \in tracking_subscriptions} \cup {AbsentId}

NextTouch ==
    \/ Tick
    \/ \E sub \in TouchSubscriptions : save_tracking_subscription(sub)
    \/ \E id \in TouchIds : update_subscription_check_time(id)
    \/ \E a \in {<<65, 66>>} : delete_tracking_subscription(1, "wallet", a)
    \/ get_user_tracking_subscriptions(1)

SpecTouch == Init /\ [][NextTouch]_vars

\* grants, by either path, with sweeps under way
SweepUsers == {1, 2}
SweepDurations == {0, 1}

NextSweep ==
    \/ Tick
    \/ \E u \in SweepUsers : save_user(NewUser(u))
    \/ \E u \in SweepUsers, d \in SweepDurations : set_premium_status(u, TRUE, d)
    \/ \E until \in PaidUntil :
          update_user_premium_status(1, TRUE, until, "monthly", "eth", "tx1")
    \/ cleanup_begin
    \/ cleanup_row
    \/ cleanup_end

SpecSweep == Init /\ [][NextSweep]_vars

NextDeployer ==
    \/ Tick
    \/ \E token \in Tokens : save_token_data(token)
    \/ \E a \in Addresses : get_token_data(a)
    \/ \E a \in Deployers : get_tokens_by_deployer(a)

SpecDeployer == Init /\ [][NextDeployer]_vars

NextInit ==
    \/ Tick
    \/ \E outcome \in InitOutcomes : init_database(outcome)
    \/ \E outcome \in InitOutcomes : get_database(outcome)
    \/ \E u \in UserIds : save_user(NewUser(u))
    \/ \E u \in UserIds : get_user(u)

SpecInit == Init /\ [][NextInit]_vars

\* the users a run of SpecEntitlement starts from, written by save_user:
\* every one of them that is not premium has premium_until null; one that
\* is premium has a premium_until or none
EntitlementUsers ==
    {[NewUser(u) EXCEPT !.is_premium = e[1], !.premium_until = e[2]] :
        u \in UserIds,
        e \in {<<FALSE, Null>>, <<TRUE, Null>>, <<TRUE, Some(1)>>}}
EntitlementDurations == {0, 1}

NextEntitlement ==
    \/ Tick
    \/ \E user \in EntitlementUsers : save_user(user)
    \/ \E u \in UserIds, p \in BOOLEAN, d \in EntitlementDurations :
          set_premium_status(u, p, d)
    \/ cleanup_expired_premium

SpecEntitlement == Init /\ [][NextEntitlement]_vars

NextUsers ==
    \/ Tick
    \/ save_user(NewUser(1))
    \/ get_user(1)
    \/ update_user_activity(1)
    \/ \E p \in BOOLEAN : set_premium_status(1, p, 0)
    \/ \E a \in BOOLEAN : set_user_admin_status(1, a)
    \/ update_user_referral_code(1, "R1")
    \/ record_referral(1, 2)
    \/ \E p \in BOOLEAN, plan \in PaidPlans :
          update_user_premium_status(1, p, Some(0), plan, "eth", "tx1")
    \/ cleanup_expired_premium

SpecUsers == Init /\ [][NextUsers]_vars

----------------------------------------------------------------------------
(* Claims about the quota ledger, under SpecQuota *)

ScanKeys == UserIds \X ScanTypes \X Dates

\* C3: every increment_user_scan_count(u, t, d) adds exactly one to what
\* get_user_scan_count(u, t, d) returns (the first call takes it from 0, no
\* row, to 1) and leaves what it returns for every other key as it was, so N
\* calls on a key with no row give N; a key never has two rows, and every
\* get_user_scan_count returns the stored count, 0 when there is no row.
C3_NoLostIncrement ==
    /\ [](\A k \in ScanKeys :
            /\ Cardinality(ScanCountResults(k[1], k[2], k[3])) = 1
            /\ (ScanRows(k[1], k[2], k[3]) = {}
                    => ScanCountResults(k[1], k[2], k[3]) = {0}))
    /\ [](last.op = "get_user_scan_count"
            => last.ret \in ScanCountResults(last.args[1], last.args[2], last.args[3]))
    /\ [][\A k \in ScanKeys :
            (/\ last' = Call("increment_user_scan_count", k, Null)
             /\ increment_user_scan_count(k[1], k[2], k[3]))
            => \A j \in ScanKeys :
                  ScanCountResults(j[1], j[2], j[3])' =
                      {c + (IF j = k THEN 1 ELSE 0) :
                          c \in ScanCountResults(j[1], j[2], j[3])}]_vars

\* two increments of one key have been counted, beside a row of another date
C3_Witness ==
    /\ last.op = "increment_user_scan_count"
    /\ ScanCountResults(last.args[1], last.args[2], last.args[3]) = {2}
    /\ \E d \in user_scans :
          /\ d.date # last.args[3]
          /\ d.user_id = last.args[1]
          /\ d.scan_type = last.args[2]
          /\ d.count = 1

\* C4: a reset_user_scan_counts step leaves get_user_scan_count at 0 for
\* every key whose date is not the current date and at its former value for
\* every key of the current date; a reset that directly follows a reset of
\* the same day changes no row.
C4_ResetBoundary ==
    /\ [][reset_user_scan_counts
            => \A k \in ScanKeys :
                  ScanCountResults(k[1], k[2], k[3])' =
                      IF k[3] = Today
                      THEN ScanCountResults(k[1], k[2], k[3])
                      ELSE {0}]_vars
    /\ [][(last = Call("reset_user_scan_counts", <<Today>>, Null)
            /\ reset_user_scan_counts)
            => user_scans' = user_scans]_vars

\* a reset has run on the second day and a counter of that day stands
C4_Witness ==
    /\ last = Call("reset_user_scan_counts", <<Today>>, Null)
    /\ Today = 1
    /\ \E d \in user_scans : d.count >= 2
    /\ \A d \in user_scans : d.date = Today

----------------------------------------------------------------------------
(* Claims about the subscription registry, under SpecSubs *)

\* the rows stored for a key, whatever the letter case they were stored in
SubRowsOfKey(user_id, tracking_type, target_address) ==
    {d \in tracking_subscriptions :
        /\ d.user_id = user_id
        /\ d.tracking_type = tracking_type
        /\ Lower(d.target_address) = Lower(target_address)}

\* C5: no key (user_id, tracking_type, target_address) ever has two rows,
\* however often and by whomever it is saved; right after an active
\* subscription is saved, get_user_tracking_subscriptions(user_id) holds
\* exactly one row of its key; right after delete_tracking_subscription it
\* holds none of that key; and a delete of a key with no row changes no
\* subscription.
C5_Resubscribe ==
    /\ [](\A u \in UserIds, t \in TrackingTypes, a \in Addresses :
            Cardinality(SubRowsOfKey(u, t, a)) <= 1)
    /\ [](last.op = "save_tracking_subscription" /\ last.args[1].is_active
            => LET sub == last.args[1]
               IN  Cardinality(UserSubscriptions(sub.user_id) \cap
                       SubRowsOfKey(sub.user_id, sub.tracking_type,
                                    sub.target_address)) = 1)
    /\ [](last.op = "delete_tracking_subscription"
            => UserSubscriptions(last.args[1]) \cap
                   SubRowsOfKey(last.args[1], last.args[2], last.args[3]) = {})
    /\ [][\A u \in UserIds, t \in TrackingTypes, a \in Addresses :
            (/\ last' = Call("delete_tracking_subscription", <<u, t, a>>, Null)
             /\ delete_tracking_subscription(u, t, a)
             /\ SubRowsOfKey(u, t, a) = {})
            => tracking_subscriptions' = tracking_subscriptions]_vars

\* an active subscription written in upper case has been saved for a user
\* who holds a second subscription, and the list shows each once
C5_Witness ==
    /\ last.op = "save_tracking_subscription"
    /\ last.args[1].is_active
    /\ last.args[1].target_address = <<65, 66>>
    /\ Cardinality(UserSubscriptions(last.args[1].user_id)) = 2
    /\ \E d \in UserSubscriptions(last.args[1].user_id) :
          d.target_address = <<97, 98>>

----------------------------------------------------------------------------
(* Claims about the keyed collections, under SpecEntity *)

\* the rows stored for an address, whatever the letter case it was stored in
TokenRowsOfKey(address) ==
    {d \in token_data : Lower(d.address) = Lower(address)}
WalletRowsOfKey(address) ==
    {d \in wallet_data : Lower(d.address) = Lower(address)}
KolRowsOfKey(address) ==
    {d \in kol_wallets : Lower(d.address) = Lower(address)}

\* d holds every field of dict, with dict's value
HoldsFields(d, dict) ==
    /\ DOMAIN dict \subseteq DOMAIN d
    /\ \A f \in DOMAIN dict : d[f] = dict[f]

\* what a lookup returned is one record, which holds the fields of dict
OneRecord(results, dict) ==
    /\ Cardinality(results) = 1
    /\ \A r \in results : r # Null /\ HoldsFields(r[1], dict)

SameAddress(a) == {b \in Addresses : Lower(b) = Lower(a)}

\* every address key stored is in lower case
KeysLowercase ==
    /\ \A d \in token_data : d.address = Lower(d.address)
    /\ \A d \in wallet_data : d.address = Lower(d.address)
    /\ \A d \in kol_wallets : d.address = Lower(d.address)
    /\ \A d \in tracking_subscriptions :
          d.target_address = Lower(d.target_address)

\* right after a token, a wallet or a subscription is saved, a lookup with
\* its address in any letter case returns the saved record
NonKolLookups ==
    /\ last.op = "save_token_data"
          => \A b \in SameAddress(last.args[1].address) :
                OneRecord(TokenDataResults(b),
                    [address |-> Lower(last.args[1].address),
                     deployer |-> last.args[1].deployer])
    /\ last.op = "save_wallet_data"
          => \A b \in SameAddress(last.args[1].address) :
                OneRecord(WalletDataResults(b),
                    [address |-> Lower(last.args[1].address),
                     win_rate |-> last.args[1].win_rate])
    /\ last.op = "save_tracking_subscription"
          => LET sub == last.args[1]
             IN  \A b \in SameAddress(sub.target_address) :
                    OneRecord(TrackingSubscriptionResults(sub.user_id,
                                  sub.tracking_type, b),
                        [user_id |-> sub.user_id,
                         tracking_type |-> sub.tracking_type,
                         target_address |-> Lower(sub.target_address),
                         is_active |-> sub.is_active])

\* C7 as claimed: token, wallet, KOL-wallet and subscription lookups return
\* the record just saved whatever the letter case of the address given, and
\* every address key stored is in lower case.
C7_Original ==
    /\ KeysLowercase
    /\ NonKolLookups
    /\ last.op = "save_kol_wallet"
          => \A b \in SameAddress(last.args[1].address) :
                OneRecord(KolWalletResults(b),
                    [address |-> Lower(last.args[1].address),
                     name |-> last.args[1].name])

\* C7, amended: as claimed for tokens, wallets and subscriptions and for the
\* stored keys; get_kol_wallet with the address in any letter case may
\* return the KOL wallet just saved, and returns nothing else unless another
\* stored KOL wallet's name is that address, ignoring case.
C7_CaseInsensitive ==
    /\ KeysLowercase
    /\ NonKolLookups
    /\ last.op = "save_kol_wallet"
          => \A b \in SameAddress(last.args[1].address) :
                /\ \E r \in KolWalletResults(b) :
                      /\ r # Null
                      /\ HoldsFields(r[1],
                             [address |-> Lower(last.args[1].address),
                              name |-> last.args[1].name])
                /\ (\A d \in kol_wallets :
                        NameMatches(d.name, b)
                        => d.address = Lower(last.args[1].address))
                    => Cardinality(KolWalletResults(b)) = 1

\* a KOL wallet written in upper case has been saved beside another one,
\* and the lookup in lower case finds it alone
C7_Witness ==
    /\ last.op = "save_kol_wallet"
    /\ last.args[1].address = <<65, 66>>
    /\ Cardinality(kol_wallets) = 2
    /\ Cardinality(KolWalletResults(<<97, 98>>)) = 1
    /\ Cardinality(KolWalletResults(<<65, 98>>)) = 1

----------------------------------------------------------------------------
(* Claims about referrals, under SpecReferral *)

\* C1: a record_referral(A, B) for a stored user A leaves exactly one edge
\* (A, B) and adds one to A's referral_count when the edge is new and
\* nothing when it was recorded before.
C1_ConditionalCount ==
    [][\A a \in UserIds, b \in UserIds :
        (/\ last' = Call("record_referral", <<a, b>>, Null)
         /\ record_referral(a, b)
         /\ UserRows(a) # {})
        => /\ Cardinality(ReferralRows(a, b)') = 1
           /\ \A d \in UserRows(a) : \E e \in UserRows(a)' :
                 e.referral_count =
                     d.referral_count + (IF ReferralRows(a, b) = {} THEN 1 ELSE 0)]_vars

----------------------------------------------------------------------------
(* Claims about paid premium, under SpecPayment *)

\* C2: an update_user_premium_status whose pricing lookup fails raises,
\* inserts no transaction and leaves the user's is_premium and
\* premium_until as they were.
C2_AtomicOnFailure ==
    [][\A u \in UserIds, until \in PaidUntil, plan \in PaidPlans :
        (/\ last'.op = "update_user_premium_status"
         /\ last'.args = <<u, TRUE, until, plan, "eth", "tx1">>
         /\ update_user_premium_status(u, TRUE, until, plan, "eth", "tx1")
         /\ PlanPaymentDetails(plan, "eth") = Null)
        => /\ last'.ret = "raised"
           /\ transactions' = transactions
           /\ \A d \in UserRows(u) : \E e \in UserRows(u)' :
                 /\ e.is_premium = d.is_premium
                 /\ e.premium_until = d.premium_until]_vars

----------------------------------------------------------------------------
(* Claims about the premium lifecycle, under SpecPremium *)

\* C8: set_premium_status(u, True, d) leaves a stored user u premium with
\* premium_until = now + d days; cleanup_expired_premium turns every user
\* who is premium with premium_until before now into a non-premium user with
\* premium_until null, touching no other field, and leaves every other user
\* (premium and not yet past premium_until, or not premium) as it was.
C8_GrantExpireCycle ==
    /\ [][\A u \in UserIds, dur \in Durations :
            (/\ last' = Call("set_premium_status", <<u, TRUE, dur>>, Null)
             /\ set_premium_status(u, TRUE, dur))
            => /\ UserRows(u) # {} => UserRows(u)' # {}
               /\ \A e \in UserRows(u)' :
                     /\ e.is_premium = TRUE
                     /\ e.premium_until = Some(now + dur * TicksPerDay)]_vars
    /\ [][(/\ last' = Call("cleanup_expired_premium", <<>>, Null)
            /\ cleanup_expired_premium)
            => /\ Cardinality(users') = Cardinality(users)
               /\ \A d \in users :
                     IF /\ d.is_premium = TRUE
                        /\ d.premium_until # Null
                        /\ d.premium_until[1] < now
                     THEN [d EXCEPT !.is_premium = FALSE,
                                    !.premium_until = Null] \in users'
                     ELSE d \in users']_vars

\* a sweep has run past the first tick and left a user whose premium ends
\* now premium, beside a user who is not premium
C8_Witness ==
    /\ last.op = "cleanup_expired_premium"
    /\ now > 0
    /\ \E d \in users : d.is_premium = TRUE /\ d.premium_until = Some(now)
    /\ \E d \in users : d.is_premium = FALSE /\ d.premium_until = Null

----------------------------------------------------------------------------
(* Claims about every operation on users, under SpecUsers *)

\* a step takes a stored user from is_premium true to is_premium false
Revoked(user_id) ==
    /\ \E d \in UserRows(user_id) : d.is_premium = TRUE
    /\ \E e \in UserRows(user_id)' : e.is_premium = FALSE

\* C9 as claimed: every step that takes a user from is_premium true to
\* is_premium false is a cleanup_expired_premium step.
C9_OnlySweepRevokes ==
    [][\A u \in UserIds :
        Revoked(u) => last'.op = "cleanup_expired_premium"]_vars

\* C9, amended: every step that takes a user from is_premium true to
\* is_premium false is a cleanup_expired_premium step or a write of
\* is_premium = false the caller asked for: set_premium_status or
\* update_user_premium_status of that user with is_premium false, or
\* save_user of that user with is_premium false; no read and no other
\* operation changes the flag.
C9_RevokingSteps ==
    [][\A u \in UserIds :
        Revoked(u)
        => \/ last'.op = "cleanup_expired_premium"
           \/ /\ last'.op \in {"set_premium_status", "update_user_premium_status"}
              /\ last'.args[1] = u
              /\ last'.args[2] = FALSE
           \/ /\ last'.op = "save_user"
              /\ last'.args[1].user_id = u
              /\ last'.args[1].is_premium = FALSE]_vars

\* a sweep has run on a user whose paid premium had ended
C9_Witness ==
    /\ last.op = "cleanup_expired_premium"
    /\ now > 0
    /\ \E d \in users :
          /\ d.is_premium = FALSE
          /\ d.premium_until = Null
          /\ "premium_plan" \in DOMAIN d
          /\ d.last_active # Null

----------------------------------------------------------------------------
(* Claims about a grant to a user who is already premium, under SpecRegrant *)

\* C11: under SpecRegrant every stored user is premium at all times, and a
\* set_premium_status(u, True, d) on a stored user, whatever premium_until
\* the user had, leaves the user as it was except for premium_until, which
\* is now + d days of the time of the call.
C11_NoStacking ==
    /\ [](\A d \in users : d.is_premium = TRUE /\ d.premium_until # Null)
    /\ [][\A u \in UserIds, dur \in Durations :
            (/\ last' = Call("set_premium_status", <<u, TRUE, dur>>, Null)
             /\ set_premium_status(u, TRUE, dur))
            => \A d \in UserRows(u) :
                  UserRows(u)' =
                      {[d EXCEPT !.premium_until =
                                     Some(now + dur * TicksPerDay)]}]_vars

\* a grant of one day has been made at tick 2 to a stored user, who was
\* premium before it as every stored user is
C11_Witness ==
    /\ last = Call("set_premium_status", <<1, TRUE, 1>>, Null)
    /\ now = 2
    /\ \E d \in UserRows(1) : d.premium_until = Some(now + Days(1))

----------------------------------------------------------------------------
(* Claims about resets among increments, under SpecQuota *)

\* C12: no step deletes a counter row whose date is today or later than
\* today, or lowers its count: a reset step removes only rows dated
\* strictly before the date of the reset.
C12_ResetKeepsLiveRows ==
    [][\A d \in user_scans :
          d.date >= Today
          => \E e \in user_scans' :
                /\ e.user_id = d.user_id
                /\ e.scan_type = d.scan_type
                /\ e.date = d.date
                /\ e.count >= d.count]_vars

----------------------------------------------------------------------------
(* Claims about last_updated, under SpecStamp *)

\* a save of a token or of a wallet leaves the row of its key with
\* last_updated at the time of the save, and no other step writes the
\* collection
TokenSavesStamp ==
    /\ \A token \in StampTokens :
          (/\ last' = Call("save_token_data", <<token>>, Null)
           /\ save_token_data(token))
          => /\ TokenRows(Lower(token.address))' # {}
             /\ \A e \in TokenRows(Lower(token.address))' :
                   e.last_updated = Some(now)
    /\ last'.op # "save_token_data" => token_data' = token_data
WalletSavesStamp ==
    /\ \A wallet \in StampWallets :
          (/\ last' = Call("save_wallet_data", <<wallet>>, Null)
           /\ save_wallet_data(wallet))
          => /\ WalletRows(Lower(wallet.address))' # {}
             /\ \A e \in WalletRows(Lower(wallet.address))' :
                   e.last_updated = Some(now)
    /\ last'.op # "save_wallet_data" => wallet_data' = wallet_data
KolSavesStamp ==
    /\ \A kol \in StampKols :
          (/\ last' = Call("save_kol_wallet", <<kol>>, Null)
           /\ save_kol_wallet(kol))
          => /\ KolRows(Lower(kol.address))' # {}
             /\ \A e \in KolRows(Lower(kol.address))' :
                   e.last_updated = Some(now)
    /\ last'.op # "save_kol_wallet" => kol_wallets' = kol_wallets

\* C13: every save of a token, a wallet or a KOL wallet leaves the stored
\* record's last_updated at the time of the save, whatever the caller
\* supplied and whatever was stored, and nothing else writes the record, so
\* last_updated is always the time of the most recent save.
C13_StampedOnSave ==
    [][TokenSavesStamp /\ WalletSavesStamp /\ KolSavesStamp]_vars

----------------------------------------------------------------------------
(* Claims about the KOL lookup, under SpecEntity *)

\* C14: get_kol_wallet(x) returns nothing when no stored wallet has the
\* name x ignoring case or the address lowercase(x), and otherwise returns
\* such a wallet; when some stored wallet matches by name, the wallet
\* returned matches by name.
C14_NamePreferred ==
    [][\A x \in Addresses \cup Names :
        (/\ last'.op = "get_kol_wallet"
         /\ last'.args = <<x>>
         /\ get_kol_wallet(x))
        => LET kol == last'.ret
               byName == {d \in kol_wallets : NameMatches(d.name, x)}
               byAddress == {d \in kol_wallets : d.address = Lower(x)}
           IN  /\ kol = Null <=> byName \cup byAddress = {}
               /\ kol # Null => kol[1] \in byName \cup byAddress
               /\ byName # {} => kol # Null /\ kol[1] \in byName]_vars

----------------------------------------------------------------------------
(* Claims about the check time of a subscription, under SpecTouch *)

\* C15: update_subscription_check_time(id) leaves the number of
\* subscription rows as it was, leaves every row with another id as it
\* was, and leaves the row with that id, if there is one, as it was in
\* every field but last_checked.
C15_TouchFrame ==
    [][\A id \in TouchIds :
        (/\ last' = Call("update_subscription_check_time", <<id>>, Null)
         /\ update_subscription_check_time(id))
        => /\ Cardinality(tracking_subscriptions') =
                 Cardinality(tracking_subscriptions)
           /\ \A d \in tracking_subscriptions :
                 IF SubscriptionId(d) = id
                 THEN \E e \in tracking_subscriptions' :
                         [e EXCEPT !.last_checked = d.last_checked] = d
                 ELSE d \in tracking_subscriptions']_vars

\* the check time of one of two stored subscriptions has been set after the
\* first tick, the other subscription never having been checked
C15_Witness ==
    /\ last.op = "update_subscription_check_time"
    /\ now > 0
    /\ \E d \in tracking_subscriptions :
          /\ SubscriptionId(d) = last.args[1]
          /\ d.last_checked = Some(now)
          /\ d.is_active = TRUE
    /\ \E d \in tracking_subscriptions :
          /\ SubscriptionId(d) # last.args[1]
          /\ d.last_checked = Null

----------------------------------------------------------------------------
(* Claims about a sweep among grants, under SpecSweep *)

\* C16: a sweep never reads a clock ahead of the store's, and no step of a
\* sweep changes a premium user whose stored premium_until is not strictly
\* before the now the sweep read, so none whose premium_until has not
\* passed, whichever grants ran before or between its steps.
C16_SweepSparesCurrent ==
    /\ [](sweep.pc = "running" => sweep.now <= now)
    /\ [][(sweep.pc = "running" /\ sweep' # sweep)
            => \A d \in users :
                  (/\ d.is_premium = TRUE
                   /\ d.premium_until # Null
                   /\ \/ d.premium_until[1] >= sweep.now
                      \/ d.premium_until[1] >= now)
                  => d \in users']_vars

\* a sweep under way has taken, and left premium, a user who was expired
\* when the sweep started and was granted premium again before the sweep
\* reached the row
C16_Witness ==
    /\ sweep.pc = "running"
    /\ \E d \in users :
          /\ UserRowId(d) \in sweep.candidates
          /\ UserRowId(d) \in sweep.seen
          /\ d.is_premium = TRUE
          /\ d.premium_until # Null
          /\ d.premium_until[1] >= now

----------------------------------------------------------------------------
(* Claims about the deployer of a token, under SpecDeployer *)

\* C17: no stored deployer holds an uppercase letter, and
\* get_tokens_by_deployer(a) returns the stored tokens whose deployer was
\* saved as a in any letter case.
C17_DeployerFolded ==
    [][/\ \A d \in token_data' : d.deployer = Lower(d.deployer)
       /\ \A a \in Deployers :
             (/\ last'.op = "get_tokens_by_deployer"
              /\ last'.args = <<a>>
              /\ get_tokens_by_deployer(a))
             => last'.ret =
                   {d \in token_data : Lower(d.deployer) = Lower(a)}]_vars

----------------------------------------------------------------------------
(* Claims about the handle, under SpecInit *)

\* C18: init_database returns true exactly when the client was built and
\* the indexes were ensured, and false otherwise; get_database hands out no
\* handle whose initialization did not succeed, and hands out an
\* initialized handle whenever an initialization would succeed now.
C18_HandleInitialized ==
    [][/\ \A outcome \in InitOutcomes :
             (last'.op = "init_database" /\ init_database(outcome))
             => /\ last'.ret = (outcome = "ok")
                /\ outcome = "ok" => db' = Handle(TRUE)
       /\ \A outcome \in InitOutcomes :
             (last'.op = "get_database" /\ get_database(outcome))
             => /\ last'.ret # Null => last'.ret = Handle(TRUE)
                /\ outcome = "ok" => last'.ret = Handle(TRUE)]_vars

----------------------------------------------------------------------------
(* Claims about the set of user rows, under SpecUsers *)

\* C19: every step keeps every stored user row (by _id), and a step after
\* which a user_id has a row it had not before is a save_user of that
\* user_id: no other operation creates a user row, and none deletes one.
C19_UserRowsOnlyGrow ==
    [][/\ \A d \in users : \E e \in users' : UserRowId(e) = UserRowId(d)
       /\ \A u \in UserIds :
             (UserRows(u) = {} /\ UserRows(u)' # {})
             => /\ last'.op = "save_user"
                /\ last'.args[1].user_id = u
       /\ Cardinality(users') > Cardinality(users)
             => /\ last'.op = "save_user"
                /\ Cardinality(users') = Cardinality(users) + 1]_vars

\* a referral has been recorded for a referrer with no user row: the edge is
\* stored and there is still no user row
C19_Witness ==
    /\ last = Call("record_referral", <<1, 2>>, Null)
    /\ referrals # {}
    /\ users = {}

----------------------------------------------------------------------------
(* Claims about is_premium and premium_until together, under            *)
(* SpecEntitlement                                                        *)

NonPremiumHaveNoUntil(rows) ==
    \A d \in rows : d.is_premium = FALSE => d.premium_until = Null
PremiumHaveUntil(rows) ==
    \A d \in rows : d.is_premium = TRUE => d.premium_until # Null

\* C20 as claimed: from users of whom those not premium have premium_until
\* null, every set_premium_status and every cleanup_expired_premium leaves
\* every user who is not premium with premium_until null and every premium
\* user with a premium_until.
C20_Original ==
    [][last'.op \in {"set_premium_status", "cleanup_expired_premium"}
        => NonPremiumHaveNoUntil(users') /\ PremiumHaveUntil(users')]_vars

\* C20, amended: every user who is not premium has premium_until null at
\* all times; and a set_premium_status or cleanup_expired_premium taken
\* where every premium user has a premium_until leaves every premium user
\* with one, a premium user without premium_until after such a step being
\* a row the step did not write.
C20_EntitlementConsistent ==
    /\ []NonPremiumHaveNoUntil(users)
    /\ [][last'.op \in {"set_premium_status", "cleanup_expired_premium"}
            => /\ PremiumHaveUntil(users) => PremiumHaveUntil(users')
               /\ \A e \in users' :
                     (e.is_premium = TRUE /\ e.premium_until = Null)
                     => e \in users]_vars

\* premium has been taken from one user after the first tick, beside a
\* premium user with a premium_until
C20_Witness ==
    /\ last = Call("set_premium_status", <<1, FALSE, 1>>, Null)
    /\ now > 0
    /\ \E d \in UserRows(1) : d.is_premium = FALSE /\ d.premium_until = Null
    /\ \E d \in UserRows(2) : d.is_premium = TRUE /\ d.premium_until # Null

====
